---- MODULE Spec2Model ----
(***************************************************************************)
(* Pharmacy inventory and point of sale: the medicine ledger, the stock    *)
(* adjustment of a sale line (SaleSerializer.adjust_stock), sale creation  *)
(* (SaleSerializer.create inside SaleViewSet.create's transaction), the    *)
(* voucher numbering (Sale.generate_voucher_number / Sale.save), the       *)
(* inventory edit (MedicineViewSet.bulk_update), the update and delete     *)
(* operations that MedicineViewSet and SaleViewSet inherit, the stock      *)
(* alerts (MedicineViewSet.alerts) and the settings row (SettingViewSet).  *)
(*                                                                         *)
(* Money is counted in mills (1/1000 of the currency unit) where the code  *)
(* holds an unrounded Decimal in memory, and in cents where it is stored in*)
(* a DecimalField(decimal_places=2) column.  A discount percentage is      *)
(* counted in hundredths of a percent (DecimalField(5, 2)).                *)
(***************************************************************************)
EXTENDS Integers, Sequences, FiniteSets, TLC

\* ------------------------------------------------------------------ bounds
\* Ledger values and quantities that StockSpec enumerates.
MaxCarton == 2
MaxUpc == 3
MaxUnit == 4
MaxQty == 3
\* Number of sale-creation calls begun in one behaviour of Spec.
MaxSeqCalls == 1
\* Number of sale-creation calls begun in one behaviour of ConcSpec.
MaxCalls == 2
\* The last calendar day a behaviour reaches.
MaxDay == 2

\* ------------------------------------------------------------- identifiers
MedIds == {"m1", "m2"}
\* An id a request may carry that names no row of the Medicine table.
MissingId == "m9"
Procs == {"p1", "p2"}
None == "None"
NoRow == [absent |-> TRUE]

VARIABLES
    medicine,    \* the Medicine table: id -> committed row, or NoRow
    sales,       \* the committed rows of the Sale table
    saleItems,   \* the committed rows of the SaleItem table
    today,       \* the calendar day timezone.now() falls on
    ncalls,      \* sale-creation calls begun so far
    pc,          \* where each sale-creation call stands
    tx,          \* each call's request and its transaction's uncommitted writes
    outcome,     \* how each caller's last call ended, and after how many lines
    editor,      \* the bulk_update request in flight
    lastAdj,     \* the last adjust_stock call StockSpec made
    lastDestroy, \* the last DELETE of a medicine and how it was answered
    alertsData,  \* the alerts page cache and the last alerts response
    setting,     \* the rows of the Setting table
    settingReq   \* each settings request in flight and how the last one ended

vars == <<medicine, sales, saleItems, today, ncalls, pc, tx, outcome, editor,
          lastAdj, lastDestroy, alertsData, setting, settingReq>>

\* The variables of the alerts and settings endpoints.
adminVars == <<alertsData, setting, settingReq>>

\* ------------------------------------------------------------ Medicine row
\* Medicine.total_stock_units
total_stock_units(m) == (m.stock_carton * m.units_per_carton) + m.stock_in_unit

\* Without the PositiveIntegerField range check (a plain IntegerField).
PositiveIntegerField_unchecked(v) == TRUE

\* PositiveIntegerField: the column carries the check "col" >= 0.
PositiveIntegerField(v) == v >= 0

\* A ledger whose stock_carton is a plain IntegerField: no range check on it.
medicine_row_valid_carton_unchecked(m) ==
    /\ PositiveIntegerField(m.units_per_carton)
    /\ PositiveIntegerField(m.stock_in_unit)

\* Medicine.save(): the UPDATE fails with an IntegrityError unless the three
\* PositiveIntegerField columns are in range.
medicine_row_valid(m) ==
    /\ PositiveIntegerField(m.stock_carton)
    /\ PositiveIntegerField(m.units_per_carton)
    /\ PositiveIntegerField(m.stock_in_unit)

\* ------------------------------------------------------------ adjust_stock
\* A line that is taken to need no units: the stock check never refuses.
required_units_zero(qty, units_per_carton, sale_type) == 0

\* required_units = qty * units_per_carton if sale_type == "carton" else qty
required_units(qty, units_per_carton, sale_type) ==
    IF sale_type = "carton" THEN qty * units_per_carton ELSE qty

\* A stock check that compares the line's quantity, not the units it needs.
not_enough_stock_qty(total_units_before, qty, units_per_carton, sale_type) ==
    total_units_before < qty

\* if total_units_before < required_units: raise ValidationError
not_enough_stock(total_units_before, qty, units_per_carton, sale_type) ==
    total_units_before < required_units(qty, units_per_carton, sale_type)

\* A carton count that rounds down and adds one: one carton too many when the
\* units needed fill whole cartons.
cartons_to_break_plus_one(needed_units, units_per_carton) ==
    (needed_units \div units_per_carton) + 1

\* cartons_to_break = (needed_units + units_per_carton - 1) // units_per_carton
cartons_to_break(needed_units, units_per_carton) ==
    (needed_units + units_per_carton - 1) \div units_per_carton

\* A carton sale that takes whole cartons only and leaves the loose units.
sale_by_carton_keeps_units(m, qty) ==
    [err |-> "ok", med |-> [m EXCEPT !.stock_carton = @ - qty]]

\* SALE BY CARTON: both counters are reduced, the loose units clamped at 0.
sale_by_carton(m, qty) ==
    LET carton == m.stock_carton - qty
        unit   == m.stock_in_unit - (qty * m.units_per_carton)
    IN  [err |-> "ok",
         med |-> [m EXCEPT !.stock_carton = carton,
                           !.stock_in_unit = IF unit < 0 THEN 0 ELSE unit]]

\* A unit sale that breaks cartons and forgets the units left over from them.
sale_by_unit_drops_leftover(m, qty) ==
    IF m.stock_in_unit >= qty
    THEN [err |-> "ok", med |-> [m EXCEPT !.stock_in_unit = @ - qty]]
    ELSE LET needed_units == qty - m.stock_in_unit
         IN  IF m.units_per_carton = 0
             THEN [err |-> "ZeroDivisionError", med |-> m]
             ELSE LET to_break == cartons_to_break(needed_units, m.units_per_carton)
                  IN  IF m.stock_carton < to_break
                      THEN [err |-> "NotEnoughCartons", med |-> m]
                      ELSE [err |-> "ok",
                            med |-> [m EXCEPT !.stock_carton = @ - to_break,
                                              !.stock_in_unit = 0]]

\* SALE BY UNIT: loose units first, else cartons are broken.
sale_by_unit(m, qty) ==
    IF m.stock_in_unit >= qty
    THEN [err |-> "ok", med |-> [m EXCEPT !.stock_in_unit = @ - qty]]
    ELSE LET needed_units == qty - m.stock_in_unit
         IN  IF m.units_per_carton = 0
             THEN [err |-> "ZeroDivisionError", med |-> m]
             ELSE LET to_break == cartons_to_break(needed_units, m.units_per_carton)
                      borrowed_units == to_break * m.units_per_carton
                  IN  IF m.stock_carton < to_break
                      THEN [err |-> "NotEnoughCartons", med |-> m]
                      ELSE [err |-> "ok",
                            med |-> [m EXCEPT
                                       !.stock_carton = @ - to_break,
                                       !.stock_in_unit = borrowed_units - needed_units]]

\* SaleSerializer.adjust_stock: the row it saves, or the error it raises (then
\* nothing is saved).  A sale_type that is neither "carton" nor "unit" passes
\* the stock check as units and saves the row as it was read.
adjust_stock(m, qty, sale_type) ==
    LET total_units_before == total_stock_units(m)
        r == IF not_enough_stock(total_units_before, qty, m.units_per_carton, sale_type)
             THEN [err |-> "NotEnoughStock", med |-> m]
             ELSE IF sale_type = "carton" THEN sale_by_carton(m, qty)
             ELSE IF sale_type = "unit" THEN sale_by_unit(m, qty)
             ELSE [err |-> "ok", med |-> m]
    IN  IF r.err = "ok" /\ ~medicine_row_valid(r.med)
        THEN [err |-> "IntegrityError", med |-> m]
        ELSE r

\* ------------------------------------------------------------------- money
\* Decimal.quantize under the default context (ROUND_HALF_EVEN): the integer
\* nearest to num / den, a tie going to the even neighbour.  den > 0.
quantize(num, den) ==
    LET q == num \div den
        r == num % den
    IN  IF 2 * r < den THEN q
        ELSE IF 2 * r > den THEN q + 1
        ELSE IF q % 2 = 0 THEN q ELSE q + 1

\* (base_price * (discount_pct / Decimal("100.00"))).quantize(Decimal("0.01")):
\* base_price in mills, discount_pct in hundredths of a percent, result in cents.
discounted_amount_of(base_price, discount_pct) ==
    quantize(base_price * discount_pct, 100000)

\* (base_price - discounted_amount).quantize(Decimal("0.01")), in cents.
total_amount_of(base_price, discounted_amount) ==
    quantize(base_price - (discounted_amount * 10), 10)

\* A DecimalField(decimal_places=2) column holds the value quantized to cents.
decimal_column(mills) == quantize(mills, 10)

\* unit_price = Decimal(provided_price) if provided_price is not None
\*              else medicine.price                      (in mills)
\* A request's price is <<>> when the item has none, else <<mills>>.
unit_price_of(provided_price, med) ==
    IF provided_price # <<>> THEN provided_price[1] ELSE med.price * 10

\* sum(Decimal(i.quantity) * i.price for i in created_items), in mills: the
\* prices are those of the objects in memory, not of the stored rows.
RECURSIVE sum_line_totals(_)
sum_line_totals(created) ==
    IF created = <<>> THEN 0
    ELSE (Head(created).quantity * Head(created).unit_price)
         + sum_line_totals(Tail(created))

\* ----------------------------------------------------------------- voucher
\* The decimal digits of n >= 0, most significant first.
RECURSIVE digits(_)
digits(n) == IF n < 10 THEN <<n>> ELSE Append(digits(n \div 10), n % 10)

\* The width of the sequence field of a voucher number.
VoucherPad == 4

\* f"{new_number:04d}": at least four digits, padded with zeros on the left.
format_04d(n) ==
    LET d == digits(n)
    IN  IF Len(d) >= VoucherPad THEN d
        ELSE [i \in 1..(VoucherPad - Len(d)) |-> 0] \o d

\* int(...) of a string of digits.
RECURSIVE to_int(_)
to_int(s) ==
    IF s = <<>> THEN 0
    ELSE (to_int(SubSeq(s, 1, Len(s) - 1)) * 10) + s[Len(s)]

\* a < b as strings (the order of order_by('-voucher_number')).
str_less(a, b) ==
    \/ /\ Len(a) < Len(b)
       /\ \A i \in 1..Len(a) : a[i] = b[i]
    \/ \E i \in 1..Len(a) :
         /\ i <= Len(b)
         /\ a[i] < b[i]
         /\ \A j \in 1..(i - 1) : a[j] = b[j]

\* Sale.generate_voucher_number(): the day's prefix and one more than the
\* sequence of the row that sorts last as a string among the rows it can see.
generate_voucher_number(visible, day) ==
    LET same == {s.voucher_number.seq : s \in {x \in visible : x.voucher_number.day = day}}
        last_number ==
            IF same = {} THEN 0
            ELSE to_int(CHOOSE a \in same : \A b \in same : b = a \/ str_less(b, a))
    IN  [day |-> day, seq |-> format_04d(last_number + 1)]

\* The INSERT of a Sale row with no uniqueness check on voucher_number.
voucher_taken_unchecked(rows, voucher) == FALSE

\* unique=True on Sale.voucher_number: a row with this number is in `rows`.
voucher_taken(rows, voucher) == \E s \in rows : s.voucher_number = voucher

\* ------------------------------------------------------------ the requests
\* The line items that the requests of Spec are built from.  The items of
\* input_items reach create() as the raw dicts of the request (a ListField
\* with no child serializer): nothing has checked quantity, sale_type or price.
SeqLines ==
    { [medicine |-> "m1", quantity |-> 1,  sale_type |-> "unit",   price |-> <<>>],
      [medicine |-> "m1", quantity |-> 2,  sale_type |-> "unit",   price |-> <<4>>],
      [medicine |-> "m1", quantity |-> 1,  sale_type |-> "carton", price |-> <<>>],
      [medicine |-> "m2", quantity |-> 1,  sale_type |-> "unit",   price |-> <<70>>],
      [medicine |-> "m2", quantity |-> 3,  sale_type |-> "unit",   price |-> <<>>],
      [medicine |-> MissingId, quantity |-> 1, sale_type |-> "unit", price |-> <<>>],
      [medicine |-> "m1", quantity |-> 0,  sale_type |-> "unit",   price |-> <<>>],
      [medicine |-> "m2", quantity |-> -1, sale_type |-> "unit",   price |-> <<>>],
      [medicine |-> "m1", quantity |-> 1,  sale_type |-> "box",    price |-> <<>>] }

\* The line items that the requests of ConcSpec are built from.
ConcLines ==
    { [medicine |-> "m1", quantity |-> 2, sale_type |-> "unit", price |-> <<>>],
      [medicine |-> "m2", quantity |-> 2, sale_type |-> "unit", price |-> <<>>] }

\* input_items of zero, one or two lines.
RequestsOf(lines) ==
    {<<>>} \cup {<<a>> : a \in lines} \cup {<<a, b>> : a \in lines, b \in lines}

\* discount_percentage values of a request, in hundredths of a percent; the
\* last is out of range.
Discounts == {0, 2500, 10001}

\* Prices an inventory edit sets, in cents, and the medicines it edits.
EditPrices == {5}
EditIds == {"m1"}

\* ------------------------------------------------------------------- state
IdleTx ==
    [id |-> 0, items |-> <<>>, discount |-> 0, voucher |-> [day |-> 0, seq |-> <<>>],
     locked |-> {}, staged |-> [m \in MedIds |-> NoRow], created |-> <<>>]

NoOutcome == [res |-> "none", line |-> 0]

IdleEditor == [pc |-> "idle", id |-> None, row |-> NoRow]

\* No alerts response yet and nothing in the page cache.
NoAlerts ==
    [cached |-> <<>>, res |-> "none", data |-> {}, rows |-> [m \in MedIds |-> NoRow],
     day |-> 0]

\* The clients of the settings endpoint, and a client with no request in flight.
Clients == {"c1", "c2"}
IdleSettingReq == [pc |-> "idle", op |-> None, obj |-> NoRow, res |-> "none"]

NoDestroy == [id |-> None, res |-> "none"]

NoAdj == [med |-> None, before |-> NoRow, qty |-> 0, sale_type |-> None, err |-> None]

\* The inventory the behaviours of Spec and ConcSpec start from.
Inventory ==
    [m \in MedIds |->
        IF m = "m1"
        THEN [stock_carton |-> 1, units_per_carton |-> 2, stock_in_unit |-> 1, price |-> 10]
        ELSE [stock_carton |-> 0, units_per_carton |-> 2, stock_in_unit |-> 2, price |-> 3]]

Init ==
    /\ medicine = Inventory
    /\ sales = {}
    /\ saleItems = {}
    /\ today = 1
    /\ ncalls = 0
    /\ pc = [p \in Procs |-> "idle"]
    /\ tx = [p \in Procs |-> IdleTx]
    /\ outcome = [p \in Procs |-> NoOutcome]
    /\ editor = IdleEditor
    /\ lastAdj = NoAdj
    /\ lastDestroy = NoDestroy
    /\ alertsData = NoAlerts
    /\ setting = {}
    /\ settingReq = [c \in Clients |-> IdleSettingReq]

\* ------------------------------------------------------------ transactions
\* The Sale rows another call has inserted and not yet committed.
uncommitted_sales(p) ==
    {[voucher_number |-> tx[q].voucher] : q \in {r \in Procs \ {p} : pc[r] \in {"items", "totals"}}}

\* Medicine.objects.get(id=...) without select_for_update(): no lock is awaited.
locked_by_other_unlocked(p, m) == FALSE

\* select_for_update(): the row lock another transaction holds until it ends.
locked_by_other(p, m) == \E q \in Procs \ {p} : m \in tx[q].locked

\* The row a transaction reads: its own uncommitted write, else the committed row.
row_seen(p, m) == IF tx[p].staged[m] # NoRow THEN tx[p].staged[m] ELSE medicine[m]

\* Medicine.objects.get(id=...) raises DoesNotExist.
does_not_exist(m) == m \notin MedIds \/ medicine[m] = NoRow

\* transaction.atomic() left by an exception: every write of the call is undone.
rollback(p, error) ==
    /\ pc' = [pc EXCEPT ![p] = "idle"]
    /\ tx' = [tx EXCEPT ![p] = IdleTx]
    /\ outcome' = [outcome EXCEPT ![p] = [res |-> error, line |-> Len(tx[p].created)]]
    /\ UNCHANGED <<medicine, sales, saleItems>>

\* validate_discount_percentage and validate.
request_valid(items, discount) ==
    /\ discount >= 0 /\ discount <= 10000
    /\ items # <<>>

\* SaleViewSet.create to the first statement of Sale.save(): is_valid(), the
\* transaction opens, generate_voucher_number() reads the last voucher.
BeginSale(p, items, discount, maxcalls) ==
    /\ pc[p] = "idle"
    /\ ncalls < maxcalls
    /\ ncalls' = ncalls + 1
    /\ IF request_valid(items, discount)
       THEN /\ pc' = [pc EXCEPT ![p] = "insert"]
            /\ tx' = [tx EXCEPT ![p] =
                        [IdleTx EXCEPT !.id = ncalls + 1,
                                       !.items = items,
                                       !.discount = discount,
                                       !.voucher = generate_voucher_number(sales, today)]]
            /\ outcome' = [outcome EXCEPT ![p] = NoOutcome]
       ELSE /\ outcome' = [outcome EXCEPT ![p] = [res |-> "ValidationError", line |-> 0]]
            /\ UNCHANGED <<pc, tx>>
    /\ UNCHANGED <<medicine, sales, saleItems, today, editor, lastAdj, lastDestroy, adminVars>>

\* Sale.objects.create(...): the INSERT of the Sale row.  It waits while
\* another transaction holds an uncommitted row with the same voucher_number
\* and fails when a committed row has it.
InsertSale(p) ==
    /\ pc[p] = "insert"
    /\ ~voucher_taken(uncommitted_sales(p), tx[p].voucher)
    /\ IF voucher_taken(sales, tx[p].voucher)
       THEN rollback(p, "IntegrityError")
       ELSE /\ pc' = [pc EXCEPT ![p] = "items"]
            /\ UNCHANGED <<tx, outcome, medicine, sales, saleItems>>
    /\ UNCHANGED <<today, ncalls, editor, lastAdj, lastDestroy, adminVars>>

\* SaleItem.objects.create(...): quantity is a PositiveIntegerField.
sale_item_valid(qty) == PositiveIntegerField(qty)

\* The SaleItem a line creates.  price is what the column stores; unit_price
\* is the Decimal the object keeps in memory, which create() sums.
\* provided_price and ledger_price record where the price came from.
sale_item(p, item, med) ==
    [sale |-> tx[p].id,
     line |-> Len(tx[p].created),
     medicine |-> item.medicine,
     quantity |-> item.quantity,
     sale_type |-> item.sale_type,
     price |-> decimal_column(unit_price_of(item.price, med)),
     unit_price |-> unit_price_of(item.price, med),
     provided_price |-> item.price,
     ledger_price |-> med.price]

\* A missing medicine is skipped and the loop goes on (as bulk_update does).
missing_medicine_skipped(p) ==
    /\ tx' = [tx EXCEPT ![p].items = Tail(@)]
    /\ pc' = [pc EXCEPT ![p] = IF Tail(tx[p].items) = <<>> THEN "totals" ELSE "items"]
    /\ UNCHANGED <<outcome, medicine, sales, saleItems>>

\* except Medicine.DoesNotExist: raise serializers.ValidationError
missing_medicine(p) == rollback(p, "DoesNotExist")

\* One turn of the loop of create_sale_items_and_adjust_stock: lock and read
\* the medicine, adjust_stock (which saves it), create the SaleItem.
SaleLine(p) ==
    /\ pc[p] = "items"
    /\ LET item == Head(tx[p].items)
           m == item.medicine
       IN  IF does_not_exist(m)
           THEN missing_medicine(p)
           ELSE /\ ~locked_by_other(p, m)
                /\ LET r == adjust_stock(row_seen(p, m), item.quantity, item.sale_type)
                   IN  IF r.err # "ok"
                       THEN rollback(p, r.err)
                       ELSE IF ~sale_item_valid(item.quantity)
                       THEN rollback(p, "IntegrityError")
                       ELSE /\ tx' = [tx EXCEPT
                                       ![p].locked = @ \cup {m},
                                       ![p].staged[m] = r.med,
                                       ![p].created = Append(@, sale_item(p, item, r.med)),
                                       ![p].items = Tail(@)]
                            /\ pc' = [pc EXCEPT ![p] =
                                       IF Tail(tx[p].items) = <<>> THEN "totals" ELSE "items"]
                            /\ UNCHANGED <<outcome, medicine, sales, saleItems>>
    /\ UNCHANGED <<today, ncalls, editor, lastAdj, lastDestroy, adminVars>>

\* A create() that commits the Sale row as it was first inserted, with the
\* 0.00 placeholders.
sale_row_placeholder(p) ==
    [id |-> tx[p].id,
     voucher_number |-> tx[p].voucher,
     discount_percentage |-> tx[p].discount,
     base_price |-> 0,
     discounted_amount |-> 0,
     total_amount |-> 0]

\* The Sale row create() saves at its end.
sale_row(p) ==
    LET base_price == sum_line_totals(tx[p].created)
        discounted_amount == discounted_amount_of(base_price, tx[p].discount)
    IN  [id |-> tx[p].id,
         voucher_number |-> tx[p].voucher,
         discount_percentage |-> tx[p].discount,
         base_price |-> quantize(base_price, 10),
         discounted_amount |-> discounted_amount,
         total_amount |-> total_amount_of(base_price, discounted_amount)]

\* The rows of the SaleItem table a call's objects were stored as.
item_rows(p) == {tx[p].created[i] : i \in 1..Len(tx[p].created)}

\* The end of SaleSerializer.create and of the transaction: the totals are
\* computed, sale.save() updates the Sale row, the transaction commits and
\* its row locks are released.
CommitSale(p) ==
    /\ pc[p] = "totals"
    /\ sales' = sales \cup {sale_row(p)}
    /\ saleItems' = saleItems \cup item_rows(p)
    /\ medicine' = [m \in MedIds |->
                      IF tx[p].staged[m] # NoRow THEN tx[p].staged[m] ELSE medicine[m]]
    /\ pc' = [pc EXCEPT ![p] = "idle"]
    /\ tx' = [tx EXCEPT ![p] = IdleTx]
    /\ outcome' = [outcome EXCEPT ![p] = [res |-> "created", line |-> Len(tx[p].created)]]
    /\ UNCHANGED <<today, ncalls, editor, lastAdj, lastDestroy, adminVars>>

\* ------------------------------------------------------------ inventory edit
\* bulk_update, for one item of the list: Medicine.objects.get(id=mid) with no
\* lock, setattr for each key of the item.  An id with no row is skipped and
\* changes nothing; the edits enumerated are those that change the price.
EditRead(m, price) ==
    /\ editor.pc = "idle"
    /\ ~does_not_exist(m)
    /\ medicine[m].price # price
    /\ editor' = [pc |-> "save", id |-> m, row |-> [medicine[m] EXCEPT !.price = price]]
    /\ UNCHANGED <<medicine, sales, saleItems, today, ncalls, pc, tx, outcome, lastAdj, lastDestroy, adminVars>>

\* med.save(): an UPDATE of every column of the row with the values of the
\* object in memory; it waits for a transaction that holds the row's lock.
EditSave ==
    /\ editor.pc = "save"
    /\ \A p \in Procs : editor.id \notin tx[p].locked
    /\ medicine' = [medicine EXCEPT ![editor.id] = editor.row]
    /\ editor' = IdleEditor
    /\ UNCHANGED <<sales, saleItems, today, ncalls, pc, tx, outcome, lastAdj, lastDestroy, adminVars>>

\* ------------------------------------------------- medicine and sale endpoints
\* A foreign key that lets a referenced medicine go (on_delete=DO_NOTHING with
\* no database constraint).
referenced_unchecked(m) == FALSE

\* SaleItem.medicine = ForeignKey("Medicine", on_delete=PROTECT): a committed
\* SaleItem row references the medicine.
referenced_by_sale_item(m) == \E i \in saleItems : i.medicine = m

\* DELETE /medicines/<id>/ (ModelViewSet.destroy -> instance.delete()).  The
\* DELETE waits for a sale transaction that holds the row's lock; a medicine
\* that a SaleItem references is refused (ProtectedError from the collector,
\* or the foreign-key constraint if the item was committed meanwhile) and
\* nothing changes.  A DELETE of an id with no row is a 404 and changes nothing.
DestroyMedicine(m) ==
    /\ ~does_not_exist(m)
    /\ \A p \in Procs : m \notin tx[p].locked
    /\ IF referenced_by_sale_item(m)
       THEN /\ lastDestroy' = [id |-> m, res |-> "ProtectedError"]
            /\ UNCHANGED medicine
       ELSE /\ lastDestroy' = [id |-> m, res |-> "deleted"]
            /\ medicine' = [medicine EXCEPT ![m] = NoRow]
    /\ UNCHANGED <<sales, saleItems, today, ncalls, pc, tx, outcome, editor, lastAdj,
                   adminVars>>

\* DELETE /sales/<id>/ (SaleViewSet is a ModelViewSet): the Sale row goes and,
\* by SaleItem.sale on_delete=CASCADE, its SaleItem rows with it.  No stock
\* is given back.
DestroySale(s) ==
    /\ sales' = sales \ {s}
    /\ saleItems' = {i \in saleItems : i.sale # s.id}
    /\ UNCHANGED <<medicine, today, ncalls, pc, tx, outcome, editor, lastAdj, lastDestroy, adminVars>>

\* discount_percentage values a PUT / PATCH of a sale carries.
UpdateDiscounts == {0, 2500}

\* PUT or PATCH /sales/<id>/ (ModelSerializer.update): the writable fields of
\* the request are set on the row and saved; base_price, discounted_amount
\* and total_amount are read-only and stay, input_items is ignored.  The
\* updates enumerated are those that change discount_percentage.
UpdateSale(s, discount) ==
    /\ discount >= 0 /\ discount <= 10000
    /\ discount # s.discount_percentage
    /\ sales' = (sales \ {s}) \cup {[s EXCEPT !.discount_percentage = discount]}
    /\ UNCHANGED <<medicine, saleItems, today, ncalls, pc, tx, outcome, editor, lastAdj,
                   lastDestroy, adminVars>>

\* ------------------------------------------------------------------ alerts
\* The queryset of MedicineViewSet.alerts over the rows of the Medicine table:
\*   Q(expire_date__lte=today) | Q(stock_in_unit__lte=F("low_stock_threshold"))
\*                             | Q(stock_carton__lte=F("low_stock_threshold"))
alerts_queryset(rows, day) ==
    {m \in MedIds :
        /\ rows[m] # NoRow
        /\ \/ rows[m].expire_date <= day
           \/ rows[m].stock_in_unit <= rows[m].low_stock_threshold
           \/ rows[m].stock_carton <= rows[m].low_stock_threshold}

\* GET /medicines/alerts/ under cache_page(60 * 5): the cached page if there
\* is one, else the queryset is evaluated and its page cached.  rows and day
\* record the table and the date at the time of the response.
Alerts ==
    /\ alertsData' =
         IF alertsData.cached # <<>>
         THEN [alertsData EXCEPT !.res = "ok", !.data = alertsData.cached[1],
                                 !.rows = medicine, !.day = today]
         ELSE [cached |-> <<alerts_queryset(medicine, today)>>,
               res |-> "ok",
               data |-> alerts_queryset(medicine, today),
               rows |-> medicine,
               day |-> today]
    /\ UNCHANGED <<medicine, sales, saleItems, today, ncalls, pc, tx, outcome, editor,
                   lastAdj, lastDestroy, setting, settingReq>>

\* The five minutes of the page cache are over.
CacheExpire ==
    /\ alertsData.cached # <<>>
    /\ alertsData' = [alertsData EXCEPT !.cached = <<>>]
    /\ UNCHANGED <<medicine, sales, saleItems, today, ncalls, pc, tx, outcome, editor,
                   lastAdj, lastDestroy, setting, settingReq>>

\* ---------------------------------------------------------------- settings
\* A string is the sequence of its characters.
DigitChars == <<"0", "1", "2", "3", "4", "5", "6", "7", "8", "9">>

is_digit(ch) == \E d \in 1..Len(DigitChars) : DigitChars[d] = ch

digit_value(ch) == (CHOOSE d \in 1..Len(DigitChars) : DigitChars[d] = ch) - 1

RECURSIVE text_to_int(_)
text_to_int(s) ==
    IF s = <<>> THEN 0
    ELSE (text_to_int(SubSeq(s, 1, Len(s) - 1)) * 10) + digit_value(s[Len(s)])

\* IntegerField.get_prep_value of a string: int(value), a ValueError unless
\* the string is a number.
int_of_text(s) ==
    IF s # <<>> /\ \A i \in 1..Len(s) : is_digit(s[i])
    THEN [err |-> "ok", value |-> text_to_int(s)]
    ELSE [err |-> "ValueError", value |-> 0]

\* The defaults get_object passes to get_or_create: discount 0.00,
\* low_stock_threshold 10, expired_date "09:00:00".
SettingDefaults ==
    [discount |-> 0,
     low_stock_threshold |-> 10,
     expired_date |-> <<"0", "9", ":", "0", "0", ":", "0", "0">>]

\* The operations of the settings endpoint and the low_stock_threshold values
\* a create / update request carries.
SettingOps == {"list", "create", "update", "destroy"}
SettingThresholds == {5, 20}

\* A request arrives.  destroy answers 405 without touching the table; list,
\* create and update start with get_object().
SettingBegin(c, op, limit) ==
    /\ settingReq[c].pc = "idle"
    /\ settingReq' = [settingReq EXCEPT ![c] =
                        IF op = "destroy"
                        THEN [pc |-> "idle", op |-> op, obj |-> NoRow, res |-> "405"]
                        ELSE [pc |-> "get", op |-> op,
                              obj |-> [low_stock_threshold |-> limit], res |-> "none"]]
    /\ UNCHANGED <<medicine, sales, saleItems, today, ncalls, pc, tx, outcome, editor,
                   lastAdj, lastDestroy, alertsData, setting>>

\* get_or_create(defaults=...), first half: Setting.objects.get() with no
\* lookup.  One row: it is the object (list answers with it).  No row: go on
\* to create.  More than one: MultipleObjectsReturned.
SettingGet(c) ==
    /\ settingReq[c].pc = "get"
    /\ settingReq' = [settingReq EXCEPT ![c] =
                        IF setting = {}
                        THEN [@ EXCEPT !.pc = "create"]
                        ELSE IF Cardinality(setting) > 1
                        THEN [IdleSettingReq EXCEPT !.op = @.op,
                                                    !.res = "MultipleObjectsReturned"]
                        ELSE LET row == CHOOSE r \in setting : TRUE
                             IN  IF @.op = "list"
                                 THEN [pc |-> "idle", op |-> @.op, obj |-> row, res |-> "ok"]
                                 ELSE [pc |-> "save", op |-> @.op,
                                       obj |-> [row EXCEPT !.low_stock_threshold =
                                                  settingReq[c].obj.low_stock_threshold],
                                       res |-> "none"]]
    /\ UNCHANGED <<medicine, sales, saleItems, today, ncalls, pc, tx, outcome, editor,
                   lastAdj, lastDestroy, alertsData, setting>>

\* get_or_create, second half: Setting.objects.create(**defaults).  The
\* INSERT converts expired_date with int() and fails on a string that is no
\* number; otherwise the new row is the object.
SettingCreate(c) ==
    /\ settingReq[c].pc = "create"
    /\ LET days == int_of_text(SettingDefaults.expired_date)
           row == [id |-> c,
                   discount |-> SettingDefaults.discount,
                   low_stock_threshold |-> SettingDefaults.low_stock_threshold,
                   expired_date |-> days.value]
       IN  IF days.err # "ok"
           THEN /\ settingReq' = [settingReq EXCEPT ![c] =
                                    [IdleSettingReq EXCEPT !.op = settingReq[c].op,
                                                           !.res = days.err]]
                /\ UNCHANGED setting
           ELSE /\ setting' = setting \cup {row}
                /\ settingReq' = [settingReq EXCEPT ![c] =
                      IF @.op = "list"
                      THEN [pc |-> "idle", op |-> @.op, obj |-> row, res |-> "ok"]
                      ELSE [pc |-> "save", op |-> @.op,
                            obj |-> [row EXCEPT !.low_stock_threshold =
                                       settingReq[c].obj.low_stock_threshold],
                            res |-> "none"]]
    /\ UNCHANGED <<medicine, sales, saleItems, today, ncalls, pc, tx, outcome, editor,
                   lastAdj, lastDestroy, alertsData>>

\* serializer.save() of create / update: the object read by get_object, with
\* the request's values set, is written over its row.
SettingSave(c) ==
    /\ settingReq[c].pc = "save"
    /\ setting' = {r \in setting : r.id # settingReq[c].obj.id} \cup {settingReq[c].obj}
    /\ settingReq' = [settingReq EXCEPT ![c] = [@ EXCEPT !.pc = "idle", !.res = "ok"]]
    /\ UNCHANGED <<medicine, sales, saleItems, today, ncalls, pc, tx, outcome, editor,
                   lastAdj, lastDestroy, alertsData>>

\* ---------------------------------------------------------- specifications
\* Spec: one caller at a time creates sales from the requests over SeqLines,
\* while an inventory edit may run.
SeqProcs == {"p1"}

Next ==
    \/ \E p \in SeqProcs, items \in RequestsOf(SeqLines), discount \in Discounts :
           BeginSale(p, items, discount, MaxSeqCalls)
    \/ \E p \in SeqProcs : InsertSale(p)
    \/ \E p \in SeqProcs : SaleLine(p)
    \/ \E p \in SeqProcs : CommitSale(p)
    \/ \E m \in EditIds, price \in EditPrices : EditRead(m, price)
    \/ EditSave

Spec == Init /\ [][Next]_vars

\* timezone.now() passes midnight.
NextDay ==
    /\ today < MaxDay
    /\ today' = today + 1
    /\ UNCHANGED <<medicine, sales, saleItems, ncalls, pc, tx, outcome, editor, lastAdj, lastDestroy, adminVars>>

\* ConcSpec: two callers create sales concurrently from the requests over
\* ConcLines, while an inventory edit may run and the day may change.
ConcDiscounts == {0}

ConcNext ==
    \/ \E p \in Procs, items \in RequestsOf(ConcLines), discount \in ConcDiscounts :
           BeginSale(p, items, discount, MaxCalls)
    \/ \E p \in Procs : InsertSale(p)
    \/ \E p \in Procs : SaleLine(p)
    \/ \E p \in Procs : CommitSale(p)
    \/ \E m \in EditIds, price \in EditPrices : EditRead(m, price)
    \/ EditSave
    \/ NextDay

ConcSpec == Init /\ [][ConcNext]_vars


\* StockSpec: adjust_stock applied again and again to one ledger row, from
\* every row within the bounds, one sale line at a time, each saved at once.
StockMed == "m1"
SaleTypes == {"unit", "carton"}

StockInit ==
    /\ \E c \in 0..MaxCarton, u \in 0..MaxUpc, s \in 0..MaxUnit :
         medicine = [Inventory EXCEPT ![StockMed] =
                       [stock_carton |-> c, units_per_carton |-> u,
                        stock_in_unit |-> s, price |-> 10]]
    /\ sales = {}
    /\ saleItems = {}
    /\ today = 1
    /\ ncalls = 0
    /\ pc = [p \in Procs |-> "idle"]
    /\ tx = [p \in Procs |-> IdleTx]
    /\ outcome = [p \in Procs |-> NoOutcome]
    /\ editor = IdleEditor
    /\ lastAdj = NoAdj
    /\ lastDestroy = NoDestroy
    /\ alertsData = NoAlerts
    /\ setting = {}
    /\ settingReq = [c \in Clients |-> IdleSettingReq]

\* self.adjust_stock(medicine, qty, sale_type) on the row as it stands.
AdjustStockCall(m, qty, sale_type) ==
    LET r == adjust_stock(medicine[m], qty, sale_type)
    IN  /\ lastAdj' = [med |-> m, before |-> medicine[m], qty |-> qty,
                       sale_type |-> sale_type, err |-> r.err]
        /\ medicine' = [medicine EXCEPT ![m] = r.med]
        /\ UNCHANGED <<sales, saleItems, today, ncalls, pc, tx, outcome, editor,
                       lastDestroy, adminVars>>

StockNext ==
    \E qty \in 1..MaxQty, sale_type \in SaleTypes : AdjustStockCall(StockMed, qty, sale_type)

StockSpec == StockInit /\ [][StockNext]_vars

\* ApiSpec: one caller creates sales from the requests over ConcLines while
\* the medicine endpoint deletes and edits and the sale endpoint updates and
\* deletes.
ApiNext ==
    \/ \E p \in SeqProcs, items \in RequestsOf(ConcLines), discount \in ConcDiscounts :
           BeginSale(p, items, discount, MaxCalls)
    \/ \E p \in SeqProcs : InsertSale(p)
    \/ \E p \in SeqProcs : SaleLine(p)
    \/ \E p \in SeqProcs : CommitSale(p)
    \/ \E m \in EditIds, price \in EditPrices : EditRead(m, price)
    \/ EditSave
    \/ \E m \in MedIds : DestroyMedicine(m)
    \/ \E s \in sales : DestroySale(s)
    \/ \E s \in sales, discount \in UpdateDiscounts : UpdateSale(s, discount)

ApiSpec == Init /\ [][ApiNext]_vars

\* AlertSpec: the alerts page is asked for while sale lines adjust the stock
\* of one ledger row and the days pass.  The rows carry the two columns the
\* alerts read besides the counters: low_stock_threshold and expire_date.
AlertThresholds == {0, 2}

AlertInit ==
    /\ \E c \in 0..MaxCarton, u \in 0..MaxUpc, s \in 0..MaxUnit,
          limit \in AlertThresholds, e \in 1..(MaxDay + 1) :
         medicine = [m \in MedIds |->
                       IF m = StockMed
                       THEN [stock_carton |-> c, units_per_carton |-> u,
                             stock_in_unit |-> s, price |-> 10,
                             low_stock_threshold |-> limit, expire_date |-> e]
                       ELSE [stock_carton |-> Inventory[m].stock_carton,
                             units_per_carton |-> Inventory[m].units_per_carton,
                             stock_in_unit |-> Inventory[m].stock_in_unit,
                             price |-> Inventory[m].price,
                             low_stock_threshold |-> 0, expire_date |-> MaxDay + 1]]
    /\ sales = {}
    /\ saleItems = {}
    /\ today = 1
    /\ ncalls = 0
    /\ pc = [p \in Procs |-> "idle"]
    /\ tx = [p \in Procs |-> IdleTx]
    /\ outcome = [p \in Procs |-> NoOutcome]
    /\ editor = IdleEditor
    /\ lastAdj = NoAdj
    /\ lastDestroy = NoDestroy
    /\ alertsData = NoAlerts
    /\ setting = {}
    /\ settingReq = [c \in Clients |-> IdleSettingReq]

AlertNext ==
    \/ \E qty \in 1..MaxQty, sale_type \in SaleTypes :
           AdjustStockCall(StockMed, qty, sale_type)
    \/ NextDay
    \/ Alerts
    \/ CacheExpire

AlertSpec == AlertInit /\ [][AlertNext]_vars

\* SettingSpec: two clients use the settings endpoint on a table that is
\* empty or holds the one row an administrator put there.
SeededSetting ==
    [id |-> "s0", discount |-> 0, low_stock_threshold |-> 10, expired_date |-> 30]

SettingInit ==
    /\ setting \in {{}, {SeededSetting}}
    /\ medicine = Inventory
    /\ sales = {}
    /\ saleItems = {}
    /\ today = 1
    /\ ncalls = 0
    /\ pc = [p \in Procs |-> "idle"]
    /\ tx = [p \in Procs |-> IdleTx]
    /\ outcome = [p \in Procs |-> NoOutcome]
    /\ editor = IdleEditor
    /\ lastAdj = NoAdj
    /\ lastDestroy = NoDestroy
    /\ alertsData = NoAlerts
    /\ settingReq = [c \in Clients |-> IdleSettingReq]

SettingNext ==
    \/ \E c \in Clients, op \in SettingOps, limit \in SettingThresholds :
           SettingBegin(c, op, limit)
    \/ \E c \in Clients : SettingGet(c)
    \/ \E c \in Clients : SettingCreate(c)
    \/ \E c \in Clients : SettingSave(c)

SettingSpec == SettingInit /\ [][SettingNext]_vars

\* VoucherSpec: one caller creates a sale on a day whose Sale table already
\* holds rows, drawn from the sequence numbers below (rows of a day's earlier
\* sales that were not deleted since) and from rows of the other days.
VoucherSeeds == {1, 2, 9998, 9999, 10000}
OtherDaySeeds == {3, 10001}

\* A committed Sale row of an earlier call: voucher f"SLS-{day}-{n:04d}".
seeded_sale(day, n) ==
    [id |-> (day * 100000) + n + 100,
     voucher_number |-> [day |-> day, seq |-> format_04d(n)],
     discount_percentage |-> 0,
     base_price |-> 0,
     discounted_amount |-> 0,
     total_amount |-> 0]

VoucherInit ==
    /\ \E d \in 1..MaxDay, A \in SUBSET VoucherSeeds, B \in SUBSET OtherDaySeeds :
         /\ today = d
         /\ sales = {seeded_sale(d, n) : n \in A}
                       \cup {seeded_sale(e, n) : e \in (1..MaxDay) \ {d}, n \in B}
    /\ medicine = Inventory
    /\ saleItems = {}
    /\ ncalls = 0
    /\ pc = [p \in Procs |-> "idle"]
    /\ tx = [p \in Procs |-> IdleTx]
    /\ outcome = [p \in Procs |-> NoOutcome]
    /\ editor = IdleEditor
    /\ lastAdj = NoAdj
    /\ lastDestroy = NoDestroy
    /\ alertsData = NoAlerts
    /\ setting = {}
    /\ settingReq = [c \in Clients |-> IdleSettingReq]

VoucherNext ==
    \/ \E p \in SeqProcs, items \in RequestsOf(ConcLines), discount \in ConcDiscounts :
           BeginSale(p, items, discount, MaxSeqCalls)
    \/ \E p \in SeqProcs : InsertSale(p)
    \/ \E p \in SeqProcs : SaleLine(p)
    \/ \E p \in SeqProcs : CommitSale(p)

VoucherSpec == VoucherInit /\ [][VoucherNext]_vars

\* ================================================================== claims
\* The ledger row StockSpec works on, and the row before its last adjustment.
StockRow == medicine[StockMed]

\* C1: after any sequence of successful sale line adjustments of a ledger with
\* units_per_carton >= 1 that started with both counters >= 0, the total
\* stock_carton * units_per_carton + stock_in_unit is >= 0.
C1_TotalNeverNegative ==
    StockRow.units_per_carton >= 1 =>
        (StockRow.stock_carton * StockRow.units_per_carton) + StockRow.stock_in_unit >= 0

\* C1 witness: a carton sale succeeded from a row with more loose units than
\* a carton holds.
C1_Witness ==
    /\ lastAdj.err = "ok"
    /\ lastAdj.sale_type = "carton"
    /\ lastAdj.before.units_per_carton >= 1
    /\ lastAdj.before.stock_in_unit >= lastAdj.before.units_per_carton
    /\ StockRow.stock_carton < lastAdj.before.stock_carton

\* C2: a successful unit sale of q units lowers the total by exactly q.
C2_UnitSaleConserves ==
    (lastAdj.err = "ok" /\ lastAdj.sale_type = "unit") =>
        (StockRow.stock_carton * StockRow.units_per_carton) + StockRow.stock_in_unit
          = ((lastAdj.before.stock_carton * lastAdj.before.units_per_carton)
             + lastAdj.before.stock_in_unit) - lastAdj.qty

\* C2 witness: a unit sale succeeded by breaking a carton.
C2_Witness ==
    /\ lastAdj.err = "ok"
    /\ lastAdj.sale_type = "unit"
    /\ lastAdj.before.stock_in_unit < lastAdj.qty
    /\ StockRow.stock_carton < lastAdj.before.stock_carton

\* C3: a successful carton sale of q cartons lowers the total by exactly
\* q * units_per_carton.
C3_CartonSaleConserves ==
    (lastAdj.err = "ok" /\ lastAdj.sale_type = "carton") =>
        (StockRow.stock_carton * StockRow.units_per_carton) + StockRow.stock_in_unit
          = ((lastAdj.before.stock_carton * lastAdj.before.units_per_carton)
             + lastAdj.before.stock_in_unit)
            - (lastAdj.qty * lastAdj.before.units_per_carton)

\* C4: when the units a line requires exceed the total units, adjust_stock
\* fails with the insufficient-stock error and both counters stay as they were.
C4_InsufficientRejected ==
    (/\ lastAdj.med # None
     /\ (IF lastAdj.sale_type = "carton"
         THEN lastAdj.qty * lastAdj.before.units_per_carton
         ELSE lastAdj.qty)
          > (lastAdj.before.stock_carton * lastAdj.before.units_per_carton)
            + lastAdj.before.stock_in_unit)
    => (/\ lastAdj.err = "NotEnoughStock"
        /\ medicine[lastAdj.med] = lastAdj.before)

\* C4 witness: a carton sale was refused although the row held at least as
\* many units as the cartons asked for.
C4_Witness ==
    /\ lastAdj.err = "NotEnoughStock"
    /\ lastAdj.sale_type = "carton"
    /\ total_stock_units(lastAdj.before) >= lastAdj.qty
    /\ StockRow = lastAdj.before

\* The SaleItem rows of a Sale row, and the sum of quantity * price over them.
items_of(s) == {i \in saleItems : i.sale = s.id}

RECURSIVE sum_rows(_)
sum_rows(rows) ==
    IF rows = {} THEN 0
    ELSE LET r == CHOOSE x \in rows : TRUE
         IN  (r.quantity * r.price) + sum_rows(rows \ {r})

\* A step of caller p's sale-creation call.
call_step(p) == pc'[p] # pc[p] \/ tx'[p] # tx[p]

\* C5: sale creation is all or nothing.  A call that ends without creating
\* the sale leaves the three tables as they were and no row of its own in
\* them; until a call commits, none of its steps changes the committed rows;
\* and a line whose medicine does not exist ends the call with an error
\* instead of being skipped.
C5_AllOrNothing ==
    [][\A p \in Procs :
         /\ (pc[p] # "idle" /\ pc'[p] = "idle" /\ outcome'[p].res # "created") =>
              /\ medicine' = medicine /\ sales' = sales /\ saleItems' = saleItems
              /\ \A s \in sales' : s.id # tx[p].id
              /\ \A i \in saleItems' : i.sale # tx[p].id
         /\ (call_step(p) /\ pc'[p] # "idle") =>
              (medicine' = medicine /\ sales' = sales /\ saleItems' = saleItems)
         /\ (pc[p] = "items" /\ call_step(p)
               /\ Head(tx[p].items).medicine \notin DOMAIN medicine) =>
              (pc'[p] = "idle" /\ outcome'[p].res = "DoesNotExist")
      ]_vars

\* C5 witness: a call failed at its second line for lack of stock after its
\* first line had succeeded, and no row and no stock change is left of it.
C5_Witness ==
    /\ outcome["p1"].res = "NotEnoughStock"
    /\ outcome["p1"].line = 1
    /\ sales = {} /\ saleItems = {}
    /\ \A m \in MedIds :
         /\ medicine[m].stock_carton = Inventory[m].stock_carton
         /\ medicine[m].stock_in_unit = Inventory[m].stock_in_unit

\* C6: every persisted SaleItem has quantity >= 1.
C6_ItemQuantityAtLeastOne == \A i \in saleItems : i.quantity >= 1

\* C7: a SaleItem's stored price is the caller's override price if one was
\* given, else the medicine's price when the item was created (compared in
\* mills; the stored price is in cents).
C7_PriceIsOverrideOrLedger ==
    \A i \in saleItems :
        i.price * 10 = (IF i.provided_price # <<>> THEN i.provided_price[1]
                        ELSE i.ledger_price * 10)

\* C8: for every committed Sale, base_price is the sum over its SaleItems of
\* quantity * price, and total_amount is base_price - discounted_amount.
C8_TotalsMatchItems ==
    \A s \in sales :
        /\ s.base_price = sum_rows(items_of(s))
        /\ s.total_amount = s.base_price - s.discounted_amount

\* C9: discounted_amount is base_price * discount_percentage / 100 rounded to
\* whole cents with ties going up (stated for the sales whose items' prices
\* are whole cents).
C9_DiscountRoundsHalfUp ==
    \A s \in sales :
        (\A i \in items_of(s) : i.unit_price = i.price * 10) =>
            s.discounted_amount
              = ((2 * s.base_price * s.discount_percentage) + 10000) \div 20000

\* C10: no two committed Sale rows have the same voucher_number.
C10_VoucherUnique ==
    \A s1 \in sales, s2 \in sales :
        s1.voucher_number = s2.voucher_number => s1.id = s2.id

\* C10 witness: two calls read the same last voucher, one committed and the
\* other's INSERT was refused.
C10_Witness ==
    /\ sales # {}
    /\ \E p \in Procs : outcome[p].res = "IntegrityError" /\ outcome[p].line = 0

\* The units the lines of a request ask of medicine m, and whether the
\* committed ledger covers what the request asks of every medicine.
RECURSIVE units_asked(_, _)
units_asked(items, m) ==
    IF items = <<>> THEN 0
    ELSE (IF Head(items).medicine = m
          THEN required_units(Head(items).quantity, medicine[m].units_per_carton,
                              Head(items).sale_type)
          ELSE 0)
         + units_asked(Tail(items), m)

stock_covers(items) ==
    /\ \A i \in 1..Len(items) :
         items[i].medicine \in MedIds /\ items[i].quantity >= 1
    /\ \A m \in MedIds :
         medicine[m] # NoRow /\ units_asked(items, m) <= total_stock_units(medicine[m])

\* C11: a sale-creation call with valid input and sufficient stock is never
\* failed by a voucher-number collision: the INSERT that finds its number
\* taken by a call that read the same last sequence does not end the call
\* with an error (it is retried with a fresh number).
C11_CollisionNeverFailsCall ==
    [][\A p \in Procs :
         (pc[p] = "insert" /\ stock_covers(tx[p].items)) =>
             ~(pc'[p] = "idle" /\ outcome'[p].res = "IntegrityError")
      ]_vars

\* The sequence numbers, as integers, of the Sale rows of one day.
day_sequences(day) ==
    {to_int(s.voucher_number.seq) : s \in {x \in sales : x.voucher_number.day = day}}

\* C12: the voucher number a call computes carries the day's prefix and a
\* sequence that is 1 when no sale of that day exists and otherwise one more
\* than the numerically highest sequence of that day's sales, whatever the
\* number of sales (9999 and beyond included) and whatever other days hold.
C12_VoucherIsHighestPlusOne ==
    \A p \in Procs :
        pc[p] = "insert" =>
            /\ tx[p].voucher.day = today
            /\ to_int(tx[p].voucher.seq)
                 = (IF day_sequences(today) = {} THEN 1
                    ELSE (CHOOSE n \in day_sequences(today) :
                            \A k \in day_sequences(today) : k <= n) + 1)

\* C13: within a call, a voucher number has been read and assigned only when
\* every line has taken its medicine lock and passed the stock adjustment.
C13_VoucherAfterLocks ==
    \A p \in Procs : tx[p].voucher.seq # <<>> => tx[p].items = <<>>

\* The units of medicine m sold by unit in the committed SaleItem rows.
RECURSIVE units_in(_)
units_in(rows) ==
    IF rows = {} THEN 0
    ELSE LET r == CHOOSE x \in rows : TRUE
         IN  r.quantity + units_in(rows \ {r})

units_sold(m) == units_in({i \in saleItems : i.medicine = m /\ i.sale_type = "unit"})

\* C14: two sale-creation calls never hold the lock of the same medicine at
\* once, and (while no inventory edit has been saved to the row: its price is
\* still the initial one) the units sold by committed unit sales never exceed
\* the initial total units: what is left is the initial total less the units
\* sold.
C14_NoOversell ==
    /\ \A p \in Procs, q \in Procs : p # q => tx[p].locked \cap tx[q].locked = {}
    /\ \A m \in MedIds :
         medicine[m].price = Inventory[m].price =>
             /\ units_sold(m) <= total_stock_units(Inventory[m])
             /\ total_stock_units(medicine[m])
                  = total_stock_units(Inventory[m]) - units_sold(m)

\* C14 witness: a call has reduced a medicine's counters under its lock and
\* not yet committed, and the other call's next line waits for that lock.
C14_Witness ==
    \E p \in Procs, q \in Procs :
        /\ p # q
        /\ pc[q] = "items"
        /\ Head(tx[q].items).medicine \in tx[p].locked
        /\ tx[p].staged[Head(tx[q].items).medicine] # NoRow
        /\ total_stock_units(tx[p].staged[Head(tx[q].items).medicine])
             < Head(tx[q].items).quantity

\* C15: two calls never wait on each other forever: whenever a call is in
\* flight, some call in flight can take its next step.
C15_NoCircularWait ==
    (\E p \in Procs : pc[p] # "idle") =>
        \E q \in Procs : ENABLED (InsertSale(q) \/ SaleLine(q) \/ CommitSale(q))

\* C16: an inventory edit that sets only the price leaves the committed
\* stock_carton and stock_in_unit of the row as they are when it is saved.
C16_EditKeepsSaleStock ==
    [][(editor.pc = "save" /\ editor'.pc = "idle") =>
         /\ medicine'[editor.id].stock_carton = medicine[editor.id].stock_carton
         /\ medicine'[editor.id].stock_in_unit = medicine[editor.id].stock_in_unit
      ]_vars

\* C17: every SaleItem references an existing Medicine, and a DELETE of a
\* medicine that a SaleItem references is refused and leaves the medicine in
\* place.
C17_SaleItemMedicineExists ==
    /\ \A i \in saleItems : i.medicine \in MedIds /\ medicine[i.medicine] # NoRow
    /\ lastDestroy.res = "ProtectedError" => medicine[lastDestroy.id] # NoRow

\* C17 witness: the DELETE of a medicine that a committed SaleItem references
\* was refused, and the medicine and the item are still there.
C17_Witness ==
    /\ lastDestroy.res = "ProtectedError"
    /\ medicine[lastDestroy.id] # NoRow
    /\ \E i \in saleItems : i.medicine = lastDestroy.id

\* C18: once a Sale is committed, no step changes its voucher number, its
\* monetary fields or its SaleItems, and none deletes it.
C18_SaleImmutable ==
    [][\A s \in sales :
         /\ s \in sales'
         /\ {i \in saleItems' : i.sale = s.id} = {i \in saleItems : i.sale = s.id}
      ]_vars

\* C19: a successful carton sale of q cartons sets stock_carton to its old
\* value minus q and stock_in_unit to max(0, old stock_in_unit - q *
\* units_per_carton); from (2 cartons, 10 per carton, 3 loose) a sale of one
\* carton leaves (1 carton, 0 loose), 10 units in all.
C19_CartonSaleCounters ==
    /\ (lastAdj.err = "ok" /\ lastAdj.sale_type = "carton") =>
         /\ StockRow.stock_carton = lastAdj.before.stock_carton - lastAdj.qty
         /\ StockRow.stock_in_unit
              = (IF lastAdj.before.stock_in_unit
                      >= lastAdj.qty * lastAdj.before.units_per_carton
                 THEN lastAdj.before.stock_in_unit
                        - (lastAdj.qty * lastAdj.before.units_per_carton)
                 ELSE 0)
    /\ LET r == adjust_stock([stock_carton |-> 2, units_per_carton |-> 10,
                              stock_in_unit |-> 3, price |-> 10], 1, "carton")
       IN  /\ r.err = "ok"
           /\ r.med.stock_carton = 1
           /\ r.med.stock_in_unit = 0
           /\ (r.med.stock_carton * r.med.units_per_carton) + r.med.stock_in_unit = 10

\* C19 witness: a carton sale succeeded from a row that held some loose units,
\* fewer than the cartons sold hold, and left none.
C19_Witness ==
    /\ lastAdj.err = "ok"
    /\ lastAdj.sale_type = "carton"
    /\ lastAdj.before.stock_in_unit > 0
    /\ lastAdj.before.stock_in_unit < lastAdj.qty * lastAdj.before.units_per_carton
    /\ StockRow.stock_in_unit = 0
    /\ StockRow.stock_carton = lastAdj.before.stock_carton - lastAdj.qty

\* C20: a successful unit sale of q units from fewer than q loose units breaks
\* exactly ceil((q - stock_in_unit) / units_per_carton) cartons and leaves
\* cartonsBroken * units_per_carton - (q - stock_in_unit) loose units, a number
\* from 0 to units_per_carton - 1; a unit sale from at least q loose units
\* leaves stock_carton as it was.
C20_UnitSaleBreaksCartons ==
    (lastAdj.err = "ok" /\ lastAdj.sale_type = "unit") =>
        LET before == lastAdj.before
            needed == lastAdj.qty - before.stock_in_unit
            broken == before.stock_carton - StockRow.stock_carton
        IN  IF before.stock_in_unit < lastAdj.qty
            THEN /\ broken * before.units_per_carton >= needed
                 /\ (broken - 1) * before.units_per_carton < needed
                 /\ StockRow.stock_in_unit = (broken * before.units_per_carton) - needed
                 /\ StockRow.stock_in_unit >= 0
                 /\ StockRow.stock_in_unit < before.units_per_carton
            ELSE broken = 0

\* C20 witness: a unit sale succeeded by breaking two cartons and left some
\* of the second as loose units.
C20_Witness ==
    /\ lastAdj.err = "ok"
    /\ lastAdj.sale_type = "unit"
    /\ lastAdj.before.stock_in_unit < lastAdj.qty
    /\ lastAdj.before.stock_carton - StockRow.stock_carton = 2
    /\ StockRow.stock_in_unit > 0

\* C21: the alerts response lists exactly the medicines that are expired or
\* whose total units (stock_carton * units_per_carton + stock_in_unit) are
\* at or below low_stock_threshold, as the table stands when it is given.
C21_AlertsByTotalUnits ==
    alertsData.res = "ok" =>
        alertsData.data
          = {m \in MedIds :
                /\ alertsData.rows[m] # NoRow
                /\ \/ alertsData.rows[m].expire_date <= alertsData.day
                   \/ (alertsData.rows[m].stock_carton * alertsData.rows[m].units_per_carton)
                        + alertsData.rows[m].stock_in_unit
                          <= alertsData.rows[m].low_stock_threshold}

\* C22: at most one Setting row exists, and every list, create or update
\* request that has been answered found the row or created it at first
\* access: it ended well and the table holds exactly one row; destroy (405)
\* removes nothing.
C22_SettingSingleton ==
    /\ Cardinality(setting) <= 1
    /\ \A c \in Clients :
         /\ settingReq[c].res \notin {"none", "405"} =>
              (settingReq[c].res = "ok" /\ Cardinality(setting) = 1)
         /\ settingReq[c].res = "405" => settingReq[c].pc = "idle"

\* C23: after any sequence of successful adjustments stock_carton >= 0 and
\* stock_in_unit >= 0 each hold, and a carton sale of q cartons from fewer than
\* q cartons is never accepted, whatever the loose units and units_per_carton
\* are: it fails and the row stays as it was.
C23_CountersNeverNegative ==
    /\ StockRow.stock_carton >= 0
    /\ StockRow.stock_in_unit >= 0
    /\ (lastAdj.sale_type = "carton" /\ lastAdj.before.stock_carton < lastAdj.qty) =>
         (lastAdj.err # "ok" /\ StockRow = lastAdj.before)

\* C23 witness: a carton sale from fewer cartons than asked passed the stock
\* check on the strength of the loose units and was refused when saved.
C23_Witness ==
    /\ lastAdj.sale_type = "carton"
    /\ lastAdj.before.stock_carton < lastAdj.qty
    /\ lastAdj.before.units_per_carton >= 1
    /\ lastAdj.before.stock_in_unit >= lastAdj.qty * lastAdj.before.units_per_carton
    /\ lastAdj.err = "IntegrityError"
    /\ StockRow = lastAdj.before

\* C24: for units_per_carton >= 1 a unit sale never ends with the "not
\* enough cartons to break" error: a sale that passed the total-stock check
\* needs no more cartons than the row holds.
C24_NotEnoughCartonsUnreachable ==
    (lastAdj.sale_type = "unit" /\ lastAdj.before.units_per_carton >= 1) =>
        /\ lastAdj.err # "NotEnoughCartons"
        /\ (total_stock_units(lastAdj.before) >= lastAdj.qty
              /\ lastAdj.before.stock_in_unit < lastAdj.qty) =>
               /\ lastAdj.err = "ok"
               /\ lastAdj.before.stock_carton - StockRow.stock_carton
                    <= lastAdj.before.stock_carton

\* C24 witness: a unit sale passed the stock check and broke every carton the
\* row held, more than one.
C24_Witness ==
    /\ lastAdj.sale_type = "unit"
    /\ lastAdj.err = "ok"
    /\ lastAdj.before.units_per_carton >= 1
    /\ lastAdj.before.stock_in_unit < lastAdj.qty
    /\ lastAdj.before.stock_carton >= 2
    /\ StockRow.stock_carton = 0

\* C25: every persisted SaleItem has sale_type "unit" or "carton": a line
\* with any other sale_type is rejected, never recorded as a sale that left
\* the stock counters untouched.
C25_SaleTypeIsUnitOrCarton ==
    \A i \in saleItems : i.sale_type \in {"unit", "carton"}

\* The sum of quantity * unit price over SaleItems, with the prices create()
\* held when it computed the totals (in mills).
RECURSIVE sum_created(_)
sum_created(rows) ==
    IF rows = {} THEN 0
    ELSE LET r == CHOOSE x \in rows : TRUE
         IN  (r.quantity * r.unit_price) + sum_created(rows \ {r})

====
